---------------------------- MODULE Spec2Model ----------------------------
(***************************************************************************)
(* Model of the "Wise Decision Helper" Streamlit script (src/app.py).      *)
(*                                                                         *)
(* A Streamlit script is re-executed top to bottom on every user           *)
(* interaction.  Each action below is one interaction: it changes one      *)
(* widget value (or presses one button) and then runs the whole script,    *)
(* ScriptRun, which recomputes everything the page shows.                  *)
(*                                                                         *)
(* Numbers.  The answer weights 1.0 / 0.5 / 0.0 are kept in tenths         *)
(* (10 / 5 / 0), the threshold 3.5 is 35.  Money is kept in cents, bucket  *)
(* percentages are integers, a share pct / total_raw_pct is the pair       *)
(* <<pct, total_raw_pct>>.  round(x, 2) is the nearest cent; at an exact   *)
(* tie the binary floating-point product may lie on either side, so both   *)
(* neighbours are outcomes.                                                *)
(***************************************************************************)
EXTENDS Integers, Sequences, FiniteSets, TLC

VARIABLES
    session_state,    \* st.session_state: a function, "verse_idx" present or not
    shown,            \* history: the verse index after initialisation and after each press
    event,            \* what triggered the latest script run: "start" (none yet),
                      \* "next_verse", "generate", or "run" (anything else)
    decision_type,    \* st.selectbox "Type of decision"
    amount,           \* st.number_input "Total amount involved", in cents
    q_god, q_want, q_future, q_fin,   \* the four st.radio answers
    summary_text,     \* classify_decision(scores), as rendered
    alloc_edit,       \* the edited bucket table: sequence of [Bucket, Percent]
    alloc_msg,        \* st.error / st.info shown under the bucket table
    generate_button,  \* whether the latest run rendered the Generate button
    plan_df,          \* the plan rendered by the latest run, if any
    partner_edit,     \* the edited partner table: sequence of "Meets This?" cells
    partner_msg,      \* the partner verdict rendered by the latest run
    options,          \* allocator: the scored option rows
    wantsBudget,      \* allocator: the spending ceiling
    pc,               \* allocator: "sort", "walk" or "done"
    walk,             \* allocator: number of rows of the sorted sequence already walked
    spent,            \* allocator: running spend
    decisions         \* allocator: decision per walked row

uiVars == <<session_state, shown, event, decision_type, amount, q_god, q_want,
            q_future, q_fin, summary_text, alloc_edit, alloc_msg, generate_button,
            plan_df, partner_edit, partner_msg>>
allocVars == <<options, wantsBudget, pc, walk, spent, decisions>>
vars == <<uiVars, allocVars>>

----------------------------------------------------------------------------
(* Bounds of the model *)

\* Longest history of verse indices kept (one initialisation, then presses).
MaxShown == 7
\* Bucket tables are edited (cells changed, rows added) only while they have at
\* most this many rows; longer tables are the default table with rows deleted.
MaxRows == 2
\* Partner tables are explored up to this many cells away from a uniform column.
MaxDeviations == 1
\* Allocator inputs: at most this many options, budgets 0..MaxBudget.
MaxOptions == 3
MaxBudget == 3

----------------------------------------------------------------------------
(* Values *)

None == <<>>                 \* Python None in a numeric cell
Some(x) == <<x>>
NoneLabel == "<None>"        \* Python None in a label cell
NotRendered == "NotRendered" \* an output before the first script run
NoMessage == "NoMessage"

Reject == "Likely No"
Accept == "Strong Yes"
WaitRefine == "Wait / Refine"

RECURSIVE SumSeq(_)
SumSeq(s) == IF s = <<>> THEN 0 ELSE Head(s) + SumSeq(Tail(s))

----------------------------------------------------------------------------
(* SCRIPTURE and show_scripture *)

SCRIPTURE == <<"Proverbs 3:5-6", "James 1:5", "Luke 14:28", "Proverbs 21:5", "Matthew 6:21">>

\* show_scripture, mutated: the increment without the modulo.
show_scripture_nomod(state, pressed) ==
    LET inits == IF "verse_idx" \in DOMAIN state
                 THEN {state}
                 ELSE {[verse_idx |-> r] : r \in 0..(Len(SCRIPTURE) - 1)}
    IN  { IF pressed THEN [verse_idx |-> s.verse_idx + 1] ELSE s : s \in inits }

\* The session states show_scripture can leave behind: verse_idx is drawn by
\* random.randint(0, len - 1) when absent; a press stores (idx + 1) % len and
\* reruns, and the rerun finds verse_idx present and the button not pressed.
show_scripture(state, pressed) ==
    LET inits == IF "verse_idx" \in DOMAIN state
                 THEN {state}
                 ELSE {[verse_idx |-> r] : r \in 0..(Len(SCRIPTURE) - 1)}
    IN  { IF pressed THEN [verse_idx |-> (s.verse_idx + 1) % Len(SCRIPTURE)] ELSE s
          : s \in inits }

----------------------------------------------------------------------------
(* map_answer and classify_decision *)

Answers == {"Unsure", "No", "Yes"}

map_answer(val) ==
    IF val = "Yes" THEN 10
    ELSE IF val = "Unsure" THEN 5
    ELSE 0

\* classify_decision, mutated: only the first gate is checked.
classify_decision_onegate(scores) ==
    LET god == scores.god_authored
        total == scores.god_authored + scores.want + scores.future_good
                 + scores.financial_sense
    IN  IF god = 0 THEN Reject
        ELSE IF total >= 35 THEN Accept
        ELSE WaitRefine

\* classify_decision, mutated: strict threshold.
classify_decision_strict(scores) ==
    LET god == scores.god_authored
        fin == scores.financial_sense
        total == scores.god_authored + scores.want + scores.future_good
                 + scores.financial_sense
    IN  IF god = 0 \/ fin = 0 THEN Reject
        ELSE IF total > 35 THEN Accept
        ELSE WaitRefine

classify_decision(scores) ==
    LET god == scores.god_authored
        fin == scores.financial_sense
        total == scores.god_authored + scores.want + scores.future_good
                 + scores.financial_sense
    IN  IF god = 0 \/ fin = 0 THEN Reject
        ELSE IF total >= 35 THEN Accept
        ELSE WaitRefine

\* scores = {...}; summary_text = classify_decision(scores)
summary(g, w, fu, fi) ==
    classify_decision([god_authored |-> map_answer(g), want |-> map_answer(w),
                       future_good |-> map_answer(fu), financial_sense |-> map_answer(fi)])

----------------------------------------------------------------------------
(* Section 3: the bucket table and the money plan *)

default_alloc == <<
    [Bucket |-> "Tithe / Giving", Percent |-> Some(10)],
    [Bucket |-> "Blessing Others (gifts, generosity)", Percent |-> Some(5)],
    [Bucket |-> "Debt / Obligations", Percent |-> Some(20)],
    [Bucket |-> "Savings / Future (emergency, investing)", Percent |-> Some(25)],
    [Bucket |-> "Essentials Upgrade (e.g., work wardrobe)", Percent |-> Some(20)],
    [Bucket |-> "Pure Joy / Fun", Percent |-> Some(20)] >>

\* dict(zip(...)) over the rows, oldest first: a label seen before keeps its
\* place in the dict and takes the later row's value.
RECURSIVE dict_zip(_, _)
dict_zip(rows, acc) ==
    IF rows = <<>> THEN acc
    ELSE LET r == Head(rows)
             at == {i \in 1..Len(acc) : acc[i].Bucket = r.Bucket}
         IN  IF at = {}
             THEN dict_zip(Tail(rows), Append(acc, r))
             ELSE dict_zip(Tail(rows),
                           [i \in 1..Len(acc) |->
                               IF i \in at THEN [acc[i] EXCEPT !.Percent = r.Percent]
                               ELSE acc[i]])

\* bucket_pcts = dict(zip(alloc_edit["Bucket"], alloc_edit["Percent"]))
bucket_pcts(edit) == dict_zip(edit, <<>>)

RECURSIVE sum_not_none(_)
sum_not_none(items) ==
    IF items = <<>> THEN 0
    ELSE (IF Head(items).Percent = None THEN 0 ELSE Head(items).Percent[1])
         + sum_not_none(Tail(items))

RECURSIVE sum_positive(_)
sum_positive(items) ==
    IF items = <<>> THEN 0
    ELSE (IF Head(items).Percent # None /\ Head(items).Percent[1] > 0
          THEN Head(items).Percent[1] ELSE 0)
         + sum_positive(Tail(items))

\* total_raw_pct, mutated: only the positive percentages are added up.
total_raw_pct_positive(pcts) == sum_positive(pcts)

\* total_raw_pct = sum([p for p in bucket_pcts.values() if p is not None])
total_raw_pct(pcts) == sum_not_none(pcts)

\* The error test, mutated: only a zero total is rejected.
degenerate_zero_only(total) == total = 0

\* if total_raw_pct <= 0: st.error(...)
degenerate(total) == total <= 0

\* round(n / d, 0) for integers n and d # 0, as the set of possible results:
\* the nearest integer, and both neighbours at an exact tie.
round_choices(n, d) ==
    LET nn == IF d < 0 THEN -n ELSE n
        dd == IF d < 0 THEN -d ELSE d
        lo == nn \div dd
        rem == nn % dd
    IN  IF 2 * rem < dd THEN {lo}
        ELSE IF 2 * rem > dd THEN {lo + 1}
        ELSE {lo, lo + 1}

\* The share, mutated: percentages taken as out of 100.
share_of_hundred(pct, total) == <<pct, 100>>

\* share = pct / total_raw_pct, kept as numerator and denominator
share(pct, total) == <<pct, total>>

\* bucket_amount = round(amount * share, 2), in cents
bucket_amount(amt, sh) == round_choices(amt * sh[1], sh[2])

\* The rows loop: one row per item of bucket_pcts whose pct is not None.
RECURSIVE plan_rows(_, _, _)
plan_rows(items, total, amt) ==
    IF items = <<>> THEN {<<>>}
    ELSE IF Head(items).Percent = None THEN plan_rows(Tail(items), total, amt)
    ELSE LET pct == Head(items).Percent[1]
             sh == share(pct, total)
         IN  { <<[Bucket |-> Head(items).Bucket, Target |-> pct, Share |-> sh,
                  Planned |-> a]>> \o rest
               : a \in bucket_amount(amt, sh), rest \in plan_rows(Tail(items), total, amt) }

NoPlan == [shown |-> FALSE, rows |-> <<>>]

\* Section 3, mutated: an amount of zero or less is refused like a degenerate table.
bucket_section_amount_checked(edit, amt, pressed) ==
    LET pcts == bucket_pcts(edit)
        total == total_raw_pct(pcts)
    IN  IF degenerate(total) \/ amt <= 0
        THEN {[msg |-> "error", button |-> FALSE, plan |-> NoPlan]}
        ELSE { [msg |-> IF total # 100 THEN "info" ELSE NoMessage,
                button |-> TRUE,
                plan |-> IF pressed THEN [shown |-> TRUE, rows |-> rows] ELSE NoPlan]
               : rows \in (IF pressed THEN plan_rows(pcts, total, amt) ELSE {<<>>}) }

\* Section 3 of the script: what it renders for a bucket table and an amount.
\* The plan exists only in the run the Generate button triggered.
bucket_section(edit, amt, pressed) ==
    LET pcts == bucket_pcts(edit)
        total == total_raw_pct(pcts)
    IN  IF degenerate(total)
        THEN {[msg |-> "error", button |-> FALSE, plan |-> NoPlan]}
        ELSE { [msg |-> IF total # 100 THEN "info" ELSE NoMessage,
                button |-> TRUE,
                plan |-> IF pressed THEN [shown |-> TRUE, rows |-> rows] ELSE NoPlan]
               : rows \in (IF pressed THEN plan_rows(pcts, total, amt) ELSE {<<>>}) }

----------------------------------------------------------------------------
(* Section 4: the partner / vendor requirements check *)

DecisionTypes == {"Purchase / Spending", "Partnership / Vendor", "Investment / Business", "Other"}

\* len(traits)
NumTraits == 13

\* partner_df: every requirement starts "Unsure"
partner_default == [i \in 1..NumTraits |-> "Unsure"]

\* A cell of the "Meets This?" selectbox column: one of the options, or empty
\* (the column is not declared required, so a cell can be cleared).
PartnerCells == {"Yes", "Unsure", "No", NoneLabel}

count(cells, v) == Cardinality({i \in 1..Len(cells) : cells[i] = v})

\* yes_count / no_count / unsure_count and the if / elif / else on them
partner_verdict(cells) ==
    IF count(cells, "No") > 0 THEN "error"
    ELSE IF count(cells, "Unsure") > 0 THEN "warning"
    ELSE "success"

\* if decision_type == "Partnership / Vendor": ...
partner_section(dt, cells) ==
    IF dt = "Partnership / Vendor" THEN partner_verdict(cells) ELSE NoMessage

----------------------------------------------------------------------------
(* The script run and the interactions *)

\* The state of a new session, before the script has run once: widgets at
\* their defaults, nothing rendered, session_state empty.
Init ==
    /\ session_state = <<>>
    /\ shown = <<>>
    /\ event = "start"
    /\ decision_type = "Purchase / Spending"
    /\ amount = 25000
    /\ q_god = "Unsure" /\ q_want = "Unsure" /\ q_future = "Unsure" /\ q_fin = "Unsure"
    /\ summary_text = NotRendered
    /\ alloc_edit = default_alloc
    /\ alloc_msg = NotRendered
    /\ generate_button = FALSE
    /\ plan_df = NoPlan
    /\ partner_edit = partner_default
    /\ partner_msg = NotRendered
    /\ options = <<>> /\ wantsBudget = 0 /\ pc = "done" /\ walk = 0
    /\ spent = 0 /\ decisions = <<>>

Loaded == event # "start"

\* One execution of the script, top to bottom, for the widget values the
\* interaction ev leaves: dt, amt, the four answers, the two edited tables.
\* The partner editor keeps its edits only while it is rendered.
ScriptRun(ev, dt, amt, g, w, fu, fi, edit, cells) ==
    /\ event' = ev
    /\ \E s \in show_scripture(session_state, ev = "next_verse") :
          /\ session_state' = s
          /\ shown' = IF "verse_idx" \notin DOMAIN session_state THEN <<s.verse_idx>>
                      ELSE IF ev = "next_verse" THEN Append(shown, s.verse_idx)
                      ELSE shown
    /\ decision_type' = dt
    /\ amount' = amt
    /\ q_god' = g /\ q_want' = w /\ q_future' = fu /\ q_fin' = fi
    /\ summary_text' = summary(g, w, fu, fi)
    /\ alloc_edit' = edit
    /\ \E b \in bucket_section(edit, amt, ev = "generate") :
          /\ alloc_msg' = b.msg
          /\ generate_button' = b.button
          /\ plan_df' = b.plan
    /\ partner_edit' = IF dt = "Partnership / Vendor" THEN cells ELSE partner_default
    /\ partner_msg' = partner_section(dt, cells)
    /\ UNCHANGED allocVars

\* The page is loaded or refreshed: the script runs with no widget changed.
Rerun ==
    ScriptRun("run", decision_type, amount, q_god, q_want, q_future, q_fin,
              alloc_edit, partner_edit)

\* st.button("Next Verse") pressed.
NextVerse ==
    /\ Loaded
    /\ Len(shown) < MaxShown
    /\ ScriptRun("next_verse", decision_type, amount, q_god, q_want, q_future, q_fin,
                 alloc_edit, partner_edit)

AnswerGod ==
    /\ Loaded
    /\ \E v \in Answers \ {q_god} :
          ScriptRun("run", decision_type, amount, v, q_want, q_future, q_fin,
                    alloc_edit, partner_edit)

AnswerWant ==
    /\ Loaded
    /\ \E v \in Answers \ {q_want} :
          ScriptRun("run", decision_type, amount, q_god, v, q_future, q_fin,
                    alloc_edit, partner_edit)

AnswerFuture ==
    /\ Loaded
    /\ \E v \in Answers \ {q_future} :
          ScriptRun("run", decision_type, amount, q_god, q_want, v, q_fin,
                    alloc_edit, partner_edit)

AnswerFin ==
    /\ Loaded
    /\ \E v \in Answers \ {q_fin} :
          ScriptRun("run", decision_type, amount, q_god, q_want, q_future, v,
                    alloc_edit, partner_edit)

\* Amounts the user types, in cents (min_value = 0.0).
AmountChoices == {0, 1, 25000}

SetAmount ==
    /\ Loaded
    /\ \E a \in AmountChoices \ {amount} :
          ScriptRun("run", decision_type, a, q_god, q_want, q_future, q_fin,
                    alloc_edit, partner_edit)

\* Cell values the user types into the bucket table.
LabelChoices == {"Tithe / Giving", "Pure Joy / Fun"}
PctChoices == {None, Some(-5), Some(0), Some(10)}

\* num_rows = "dynamic": a row is appended, its cells empty.
AddRow ==
    /\ Loaded
    /\ Len(alloc_edit) < MaxRows
    /\ ScriptRun("run", decision_type, amount, q_god, q_want, q_future, q_fin,
                 Append(alloc_edit, [Bucket |-> NoneLabel, Percent |-> None]), partner_edit)

\* num_rows = "dynamic": a row is deleted (the model deletes from the end).
DeleteRow ==
    /\ Loaded
    /\ Len(alloc_edit) > 0
    /\ ScriptRun("run", decision_type, amount, q_god, q_want, q_future, q_fin,
                 SubSeq(alloc_edit, 1, Len(alloc_edit) - 1), partner_edit)

EditBucket ==
    /\ Loaded
    /\ Len(alloc_edit) <= MaxRows
    /\ \E i \in 1..Len(alloc_edit) : \E l \in LabelChoices \ {alloc_edit[i].Bucket} :
          ScriptRun("run", decision_type, amount, q_god, q_want, q_future, q_fin,
                    [alloc_edit EXCEPT ![i].Bucket = l], partner_edit)

EditPercent ==
    /\ Loaded
    /\ Len(alloc_edit) <= MaxRows
    /\ \E i \in 1..Len(alloc_edit) : \E p \in PctChoices \ {alloc_edit[i].Percent} :
          ScriptRun("run", decision_type, amount, q_god, q_want, q_future, q_fin,
                    [alloc_edit EXCEPT ![i].Percent = p], partner_edit)

\* st.button("Generate Money Plan") pressed; the button exists only if the
\* latest run rendered it.
GeneratePlan ==
    /\ Loaded
    /\ generate_button
    /\ ScriptRun("generate", decision_type, amount, q_god, q_want, q_future, q_fin,
                 alloc_edit, partner_edit)

SelectDecisionType ==
    /\ Loaded
    /\ \E dt \in DecisionTypes \ {decision_type} :
          ScriptRun("run", dt, amount, q_god, q_want, q_future, q_fin,
                    alloc_edit, partner_edit)

\* The tables the model explores: within MaxDeviations cells of a uniform column.
NearUniform(cells) ==
    \E v \in PartnerCells :
        Cardinality({i \in 1..NumTraits : cells[i] # v}) <= MaxDeviations

\* One cell of the partner table is edited.
EditPartnerCell ==
    /\ Loaded
    /\ decision_type = "Partnership / Vendor"
    /\ \E i \in 1..NumTraits : \E v \in PartnerCells \ {partner_edit[i]} :
          /\ NearUniform([partner_edit EXCEPT ![i] = v])
          /\ ScriptRun("run", decision_type, amount, q_god, q_want, q_future, q_fin,
                       alloc_edit, [partner_edit EXCEPT ![i] = v])

\* One of the options is pasted or dragged over the whole "Meets This?" column.
FillPartnerColumn ==
    /\ Loaded
    /\ decision_type = "Partnership / Vendor"
    /\ \E v \in PartnerCells \ {NoneLabel} :
          ScriptRun("run", decision_type, amount, q_god, q_want, q_future, q_fin,
                    alloc_edit, [i \in 1..NumTraits |-> v])

\* Header and section 2: the verse and the four answers.
Next == Rerun \/ NextVerse \/ AnswerGod \/ AnswerWant \/ AnswerFuture \/ AnswerFin
Spec == Init /\ [][Next]_vars

\* Section 3: the amount, the bucket table and the plan.
NextPlan == Rerun \/ SetAmount \/ AddRow \/ DeleteRow \/ EditBucket \/ EditPercent \/ GeneratePlan
SpecPlan == Init /\ [][NextPlan]_vars

\* Section 4: the decision type and the partner table.
NextPartner == Rerun \/ SelectDecisionType \/ EditPartnerCell \/ FillPartnerColumn
SpecPartner == Init /\ [][NextPartner]_vars

----------------------------------------------------------------------------
(* The greedy allocator (spec.md 4.2; no code of it is in src/) *)

\* Costs and scores of the scored option rows handed to the allocator.
CostChoices == {-1, 0, 1, 2}
ScoreChoices == {0, 1}
OptionRows == [cost : CostChoices, score : ScoreChoices]

RECURSIVE SeqsUpTo(_, _)
SeqsUpTo(S, n) ==
    IF n = 0 THEN {<<>>}
    ELSE LET shorter == SeqsUpTo(S, n - 1)
         IN  shorter \cup {Append(q, x) : q \in {r \in shorter : Len(r) = n - 1}, x \in S}

\* Insert row into a sequence sorted by score descending, after every row of
\* an equal or higher score (so that equal scores keep their input order).
RECURSIVE insert_by_score(_, _)
insert_by_score(sorted, row) ==
    IF sorted = <<>> THEN <<row>>
    ELSE IF Head(sorted).score >= row.score
         THEN <<Head(sorted)>> \o insert_by_score(Tail(sorted), row)
         ELSE <<row>> \o sorted

\* "sort rows by score descending (stable on ties)"
RECURSIVE sort_by_score(_)
sort_by_score(rows) ==
    IF rows = <<>> THEN <<>>
    ELSE insert_by_score(sort_by_score(SubSeq(rows, 1, Len(rows) - 1)), rows[Len(rows)])

\* The funding test, mutated: the ceiling is tested before the cost is added.
fits_before_adding(sp, cost, budget) == sp <= budget

\* "if spent + cost <= wantsBudget (inclusive)"
fits(sp, cost, budget) == sp + cost <= budget

InitAlloc ==
    /\ session_state = <<>>
    /\ shown = <<>>
    /\ event = "start"
    /\ decision_type = "Purchase / Spending"
    /\ amount = 25000
    /\ q_god = "Unsure" /\ q_want = "Unsure" /\ q_future = "Unsure" /\ q_fin = "Unsure"
    /\ summary_text = NotRendered
    /\ alloc_edit = default_alloc
    /\ alloc_msg = NotRendered
    /\ generate_button = FALSE
    /\ plan_df = NoPlan
    /\ partner_edit = partner_default
    /\ partner_msg = NotRendered
    /\ options \in SeqsUpTo(OptionRows, MaxOptions)
    /\ wantsBudget \in 0..MaxBudget
    /\ pc = "sort" /\ walk = 0 /\ spent = 0 /\ decisions = <<>>

AllocSort ==
    /\ pc = "sort"
    /\ options' = sort_by_score(options)
    /\ pc' = IF Len(options) = 0 THEN "done" ELSE "walk"
    /\ UNCHANGED <<wantsBudget, walk, spent, decisions, uiVars>>

Advance ==
    /\ walk' = walk + 1
    /\ pc' = IF walk + 1 = Len(options) THEN "done" ELSE "walk"
    /\ UNCHANGED <<options, wantsBudget, uiVars>>

\* "If an item's cost is <= 0, mark it Skip and continue without affecting spent"
AllocSkip ==
    /\ pc = "walk"
    /\ options[walk + 1].cost <= 0
    /\ decisions' = Append(decisions, [status |-> "Skip", cost |-> options[walk + 1].cost,
                                       cumulative |-> None])
    /\ spent' = spent
    /\ Advance

\* "mark Fund-Now, add cost to spent, and record the post-addition cumulative value"
AllocFundNow ==
    /\ pc = "walk"
    /\ options[walk + 1].cost > 0
    /\ fits(spent, options[walk + 1].cost, wantsBudget)
    /\ spent' = spent + options[walk + 1].cost
    /\ decisions' = Append(decisions, [status |-> "Fund-Now", cost |-> options[walk + 1].cost,
                                       cumulative |-> Some(spent + options[walk + 1].cost)])
    /\ Advance

\* "Otherwise mark Defer"
AllocDefer ==
    /\ pc = "walk"
    /\ options[walk + 1].cost > 0
    /\ ~fits(spent, options[walk + 1].cost, wantsBudget)
    /\ decisions' = Append(decisions, [status |-> "Defer", cost |-> options[walk + 1].cost,
                                       cumulative |-> None])
    /\ spent' = spent
    /\ Advance

NextAlloc == AllocSort \/ AllocSkip \/ AllocFundNow \/ AllocDefer
SpecAlloc == InitAlloc /\ [][NextAlloc]_vars

----------------------------------------------------------------------------
(* The claims *)

\* The weight of an answer as the specification states it, in tenths.
ClaimWeight(a) == CASE a = "Yes" -> 10 [] a = "Unsure" -> 5 [] a = "No" -> 0
ClaimSum == ClaimWeight(q_god) + ClaimWeight(q_want) + ClaimWeight(q_future)
            + ClaimWeight(q_fin)

\* C1: whatever the other answers are, if god_authored is "No" or
\* financial_sense is "No" the rendered verdict is Reject ("Likely No").
C1_GateRejects ==
    Loaded => ((q_god = "No" \/ q_fin = "No") => summary_text = Reject)

\* C1 witness: only the financial gate is "No", every other answer is "Yes".
C1_Witness ==
    /\ q_god = "Yes" /\ q_want = "Yes" /\ q_future = "Yes" /\ q_fin = "No"
    /\ summary_text = Reject

\* C2: with neither gate "No", the verdict is Accept exactly when the four
\* weights sum to at least 3.5, and Wait / Refine otherwise.
C2_Threshold ==
    (Loaded /\ q_god # "No" /\ q_fin # "No") =>
        /\ (ClaimSum >= 35 => summary_text = Accept)
        /\ (ClaimSum < 35 => summary_text = WaitRefine)

\* C2 witness: the sum is exactly 3.5 and the verdict is Accept.
C2_Witness ==
    /\ q_god # "No" /\ q_fin # "No"
    /\ ClaimSum = 35
    /\ summary_text = Accept

\* The sum of the non-null raw percentages of the bucket mapping.
MappingSum == total_raw_pct(bucket_pcts(alloc_edit))

\* C3: when the non-null percentages of the bucket mapping sum to <= 0 the
\* error is shown and no plan is produced; a plan is produced only when that
\* sum is > 0 and Generate was pressed.
C3_DegenerateRejected ==
    /\ (Loaded /\ MappingSum <= 0) => (alloc_msg = "error" /\ ~plan_df.shown)
    /\ plan_df.shown => (MappingSum > 0 /\ event = "generate")

\* C3 witness: a table whose only non-null percentages are negative, refused.
C3_Witness ==
    /\ alloc_msg = "error"
    /\ MappingSum < 0
    /\ \A i \in 1..Len(alloc_edit) :
          alloc_edit[i].Percent # None => alloc_edit[i].Percent[1] < 0

PlannedTotal == SumSeq([i \in 1..Len(plan_df.rows) |-> plan_df.rows[i].Planned])
AllPositive ==
    \A i \in 1..Len(alloc_edit) :
        alloc_edit[i].Percent # None => alloc_edit[i].Percent[1] > 0
AbsVal(x) == IF x < 0 THEN -x ELSE x

\* C4: for buckets with positive percentages and any amount >= 0, the planned
\* amounts of the generated plan sum to the amount within one cent per bucket.
C4_PlannedSum ==
    (plan_df.shown /\ AllPositive) =>
        AbsVal(PlannedTotal - amount) <= Len(plan_df.rows)

\* C4 witness: a plan for percentages that do not sum to 100 whose planned
\* amounts do not add up to the amount exactly.
C4_Witness ==
    /\ plan_df.shown /\ AllPositive
    /\ MappingSum # 100
    /\ PlannedTotal # amount

NonNullCount(items) == Cardinality({i \in 1..Len(items) : items[i].Percent # None})

\* C5: the shares of the generated plan, one per non-null bucket of the
\* mapping, have the common denominator total_raw_pct and sum to 1.
C5_SharesSumToOne ==
    plan_df.shown =>
        /\ Len(plan_df.rows) = NonNullCount(bucket_pcts(alloc_edit))
        /\ Len(plan_df.rows) >= 1
        /\ \A i \in 1..Len(plan_df.rows) :
              plan_df.rows[i].Share[2] = plan_df.rows[1].Share[2]
        /\ plan_df.rows[1].Share[2] # 0
        /\ SumSeq([i \in 1..Len(plan_df.rows) |-> plan_df.rows[i].Share[1]])
             = plan_df.rows[1].Share[2]

\* C5 witness: a plan of two or more rows, one of them negative, whose
\* percentages do not sum to 100.
C5_Witness ==
    /\ plan_df.shown
    /\ Len(plan_df.rows) >= 2
    /\ MappingSum # 100
    /\ \E i \in 1..Len(plan_df.rows) : plan_df.rows[i].Target < 0

NonNull(r) == r.Percent # None

\* C6: the generated plan has exactly one row per input row with a non-null
\* percentage, in input order, and each row's share is its own percentage
\* over the sum of the non-null percentages of all input rows.
C6_OneRowPerInputBucket ==
    plan_df.shown =>
        LET inp == SelectSeq(alloc_edit, NonNull)
        IN  /\ Len(plan_df.rows) = Len(inp)
            /\ \A i \in 1..Len(inp) :
                  /\ plan_df.rows[i].Bucket = inp[i].Bucket
                  /\ plan_df.rows[i].Target = inp[i].Percent[1]
                  /\ plan_df.rows[i].Share = <<inp[i].Percent[1], sum_not_none(alloc_edit)>>

\* C7 as claimed: with amount <= 0 no plan is ever produced.
C7_NoPlanForNonPositiveAmount ==
    amount <= 0 => ~plan_df.shown

\* C7 amended: the amount is never negative and is not validated; Generate is
\* offered whenever the percentages sum to > 0, whatever the amount; every press
\* of it produces a plan, and for an amount of 0 every planned amount is 0.
C7_ZeroAmountPlanned ==
    /\ amount >= 0
    /\ (Loaded /\ MappingSum > 0) => generate_button
    /\ event = "generate" =>
          /\ plan_df.shown
          /\ Len(plan_df.rows) >= 1
          /\ amount = 0 => \A i \in 1..Len(plan_df.rows) : plan_df.rows[i].Planned = 0

\* C7 witness: a plan generated for an amount of 0.
C7_Witness ==
    /\ amount = 0
    /\ event = "generate"
    /\ plan_df.shown

FundNowRows == {i \in 1..Len(decisions) : decisions[i].status = "Fund-Now"}
FundNowCost == SumSeq([i \in 1..Len(decisions) |->
                          IF i \in FundNowRows THEN decisions[i].cost ELSE 0])

\* C8: at every step of the walk spent is within wantsBudget and equals the
\* summed cost of the Fund-Now rows, every recorded cumulative value is within
\* wantsBudget, and the rows of cost <= 0 are exactly the Skip rows.
C8_BudgetNeverExceeded ==
    /\ spent <= wantsBudget
    /\ spent = FundNowCost
    /\ \A i \in 1..Len(decisions) :
          /\ decisions[i].status = "Skip" <=> decisions[i].cost <= 0
          /\ decisions[i].status = "Fund-Now" =>
                (decisions[i].cumulative # None /\ decisions[i].cumulative[1] <= wantsBudget)

\* C8 witness: a finished walk that funded, deferred and skipped, and spent
\* the whole budget.
C8_Witness ==
    /\ pc = "done"
    /\ wantsBudget > 0 /\ spent = wantsBudget
    /\ \E i, j, k \in 1..Len(decisions) :
          /\ decisions[i].status = "Fund-Now"
          /\ decisions[j].status = "Defer"
          /\ decisions[k].status = "Skip"

NumVerses == Len(SCRIPTURE)

\* C9: once initialised the verse index is in 0..len(SCRIPTURE)-1 and is the
\* last index of the history, which grows only at initialisation and at a
\* press; each press moves to (idx + 1) mod len(SCRIPTURE), so len(SCRIPTURE)
\* presses return to the same verse after showing every verse once.
C9_VerseIndex ==
    /\ ("verse_idx" \notin DOMAIN session_state) <=> (shown = <<>>)
    /\ "verse_idx" \in DOMAIN session_state =>
          /\ session_state.verse_idx \in 0..(NumVerses - 1)
          /\ session_state.verse_idx = shown[Len(shown)]
          /\ \A i \in 1..(Len(shown) - 1) : shown[i + 1] = (shown[i] + 1) % NumVerses
          /\ \A i \in 1..Len(shown) :
                i + NumVerses <= Len(shown) =>
                   /\ shown[i + NumVerses] = shown[i]
                   /\ Cardinality({shown[j] : j \in i..(i + NumVerses - 1)}) = NumVerses

\* C9 witness: the verse has been advanced len(SCRIPTURE) times and is back
\* at the verse the session started with.
C9_Witness ==
    /\ Len(shown) = NumVerses + 1
    /\ event = "next_verse"
    /\ session_state.verse_idx = shown[1]

AllYes == \A i \in 1..NumTraits : partner_edit[i] = "Yes"
SomeNo == \E i \in 1..NumTraits : partner_edit[i] = "No"

\* C10: the partner verdict is rendered only for "Partnership / Vendor"; the
\* error is shown whenever a requirement is "No", the warning only when none
\* is "No", and the success message only when every requirement is "Yes".
C10_PartnerVerdict ==
    /\ partner_msg \in {"error", "warning", "success"} =>
          decision_type = "Partnership / Vendor"
    /\ (Loaded /\ decision_type = "Partnership / Vendor") =>
          /\ SomeNo => partner_msg = "error"
          /\ partner_msg = "warning" => ~SomeNo
          /\ partner_msg = "success" => AllYes

=============================================================================
